---- MODULE Spec2Model ----
(***************************************************************************)
(* State-machine model of the chat-game services:                          *)
(*   WorldService     (service_world.py)     location graph and pointer    *)
(*   CharacterService (service_character.py) NPC registry, mood, history   *)
(*   AIService        (service_ai.py)        dialogue adapter              *)
(*   GameService      (service_game.py)      command interpreter           *)
(*                                                                         *)
(* Conventions.                                                            *)
(*  - A mood is a float in the source; here it is an integer number of     *)
(*    thousandths (0.5 is 500, 1.7 is 1700).                               *)
(*  - A text is a sequence of string tokens.  The tokens FENCE_JSON, FENCE *)
(*    and WS (white space) are the ones the adapter's string operations    *)
(*    look at; every other token is an opaque piece of text.               *)
(*  - The source's Chinese string literals are written as ASCII tokens     *)
(*    with the prefix zh_ (pinyin), e.g. zh_bei is U+5317 (north).         *)
(***************************************************************************)
EXTENDS Integers, Sequences, FiniteSets, TLC

VARIABLES
    current_location,   \* WorldService.current_location
    locations,          \* WorldService.locations: id -> [exits, characters]
    characters,         \* CharacterService.characters: id -> Character
    session_histories,  \* AIService.session_histories: key -> message list
    client,             \* AIService.client is not None
    debug_mode,         \* ConfigService.is_debug_mode()
    loop_running,       \* an asyncio event loop runs in the caller's thread
    sent,               \* message list handed to the completion endpoint by the last call
    game_state,         \* the caller-owned GameState dict
    result,             \* what the last operation returned
    exchanges,          \* every (user, ai) pair given to add_conversation since the last reset
    calls               \* number of operations that grow a list (bounds the model)

vars == <<current_location, locations, characters, session_histories, client,
          debug_mode, loop_running, sent, game_state, result, exchanges, calls>>

(***************************************************************************)
(* Bounds of the model.                                                    *)
(***************************************************************************)
MaxTalk == 1        \* talk commands per run of the game specifications
MaxCalls == 2       \* adapter calls per run of SpecAI
MaxDeep == 11       \* adapter calls per run of SpecDeep
MaxAppend == 12     \* add_conversation calls per run of SpecChar
MaxReplay == 2      \* talk commands per run of SpecReplay

(***************************************************************************)
(* Program constants.                                                      *)
(***************************************************************************)
DEFAULT_MOOD == 500             \* config.DEFAULT_MOOD = 0.5
MoodMin == 0                    \* lower clamp 0.0
MoodMax == 1000                 \* upper clamp 1.0
ConversationLimit == 10         \* Character.add_conversation keeps 10
SessionLimit == 20              \* adapter truncates above 20
SessionKeep == 19               \* ... to entry 0 plus the last 19
MAX_RESPONSE_LENGTH == 500      \* config.MAX_RESPONSE_LENGTH

START_LOCATION == "village_center"

(***************************************************************************)
(* Sequence helpers.                                                       *)
(***************************************************************************)
Contains(s, x) == \E i \in 1..Len(s) : s[i] = x

\* Python s[-n:] for n > 0
LastN(s, n) == IF Len(s) <= n THEN s ELSE SubSeq(s, Len(s) - n + 1, Len(s))

\* Python list.remove(x): drops the first occurrence
RemoveFirst(s, x) ==
    IF ~Contains(s, x) THEN s
    ELSE LET i == CHOOSE j \in 1..Len(s) : s[j] = x /\ \A k \in 1..(j-1) : s[k] # x
         IN SubSeq(s, 1, i - 1) \o SubSeq(s, i + 1, Len(s))

Max2(a, b) == IF a >= b THEN a ELSE b
Min2(a, b) == IF a <= b THEN a ELSE b

(***************************************************************************)
(* WorldService: the fixed world of _initialize_world.                     *)
(***************************************************************************)
LocationIds == {"village_center", "forest_entrance", "deep_forest",
                "village_shop", "village_house", "river_bank"}

\* a world whose river bank leads to an identifier that is no location
WorldExits_dangling ==
    [village_center  |-> [north |-> "forest_entrance", east |-> "village_shop",
                          west |-> "village_house", south |-> "river_bank"],
     forest_entrance |-> [south |-> "village_center", north |-> "deep_forest"],
     deep_forest     |-> [south |-> "forest_entrance"],
     village_shop    |-> [west |-> "village_center"],
     village_house   |-> [east |-> "village_center"],
     river_bank      |-> [north |-> "village_centre"]]

\* exits of each Location (direction -> destination id)
WorldExits ==
    [village_center  |-> [north |-> "forest_entrance", east |-> "village_shop",
                          west |-> "village_house", south |-> "river_bank"],
     forest_entrance |-> [south |-> "village_center", north |-> "deep_forest"],
     deep_forest     |-> [south |-> "forest_entrance"],
     village_shop    |-> [west |-> "village_center"],
     village_house   |-> [east |-> "village_center"],
     river_bank      |-> [north |-> "village_center"]]

\* exits.keys() in insertion order
WorldExitKeys ==
    [village_center  |-> <<"north", "east", "west", "south">>,
     forest_entrance |-> <<"south", "north">>,
     deep_forest     |-> <<"south">>,
     village_shop    |-> <<"west">>,
     village_house   |-> <<"east">>,
     river_bank      |-> <<"north">>]

\* the dict `direction_map` of move_to; the keys are, in order,
\* U+5317 U+5357 U+4E1C U+897F U+4E0A U+4E0B and the same followed by U+65B9
direction_map ==
    [zh_bei |-> "north", zh_nan |-> "south", zh_dong |-> "east", zh_xi |-> "west",
     zh_shang |-> "up", zh_xia |-> "down",
     zh_beifang |-> "north", zh_nanfang |-> "south", zh_dongfang |-> "east",
     zh_xifang |-> "west", zh_shangfang |-> "up", zh_xiafang |-> "down"]

\* the dict `direction_names` (get_exits_description, _handle_move_command)
direction_names ==
    [north |-> "zh_beifang", south |-> "zh_nanfang", east |-> "zh_dongfang",
     west |-> "zh_xifang", up |-> "zh_shangfang", down |-> "zh_xiafang"]

\* direction_map.get(direction, direction)
normalized_direction(direction) ==
    IF direction \in DOMAIN direction_map THEN direction_map[direction] ELSE direction

\* move_to reporting success without moving the pointer
move_to_stays(locs, cur, direction) ==
    IF cur \in DOMAIN locs /\ normalized_direction(direction) \in DOMAIN locs[cur].exits
    THEN [success |-> TRUE, message |-> "moved", current_location |-> cur]
    ELSE [success |-> FALSE, message |-> "no_exit", current_location |-> cur]

\* move_to without the exit test: exits.get(direction) of a missing key is None
move_to_unchecked(locs, cur, direction) ==
    LET nd == normalized_direction(direction) IN
    IF cur \in DOMAIN locs /\ nd \in DOMAIN locs[cur].exits
    THEN [success |-> TRUE, message |-> "moved", current_location |-> locs[cur].exits[nd]]
    ELSE [success |-> TRUE, message |-> "moved", current_location |-> "None"]

\* WorldService.move_to: the returned pair and the new pointer
move_to(locs, cur, direction) ==
    IF cur \notin DOMAIN locs
    THEN [success |-> FALSE, message |-> "location_unknown", current_location |-> cur]
    ELSE LET nd == normalized_direction(direction) IN
         IF nd \notin DOMAIN locs[cur].exits
         THEN [success |-> FALSE, message |-> "no_exit", current_location |-> cur]
         ELSE LET target_location == locs[cur].exits[nd] IN
              IF target_location \notin DOMAIN locs
              THEN [success |-> FALSE, message |-> "target_missing", current_location |-> cur]
              ELSE [success |-> TRUE, message |-> "moved", current_location |-> target_location]

\* add_character without the membership test
add_character_duplicating(chars, character_id) == Append(chars, character_id)

\* Location.add_character
add_character(chars, character_id) ==
    IF ~Contains(chars, character_id) THEN Append(chars, character_id) ELSE chars

\* Location.remove_character
remove_character(chars, character_id) == RemoveFirst(chars, character_id)

\* `if location_id is None: location_id = self.current_location`; the
\* omitted argument is written "None"
default_location(location_id, cur) == IF location_id = "None" THEN cur ELSE location_id

\* WorldService.add_character_to_location (location_id already defaulted)
add_character_to_location(locs, character_id, location_id) ==
    IF location_id \in DOMAIN locs
    THEN [locs EXCEPT ![location_id].characters = add_character(@, character_id)]
    ELSE locs

\* WorldService.remove_character_from_location (location_id already defaulted)
remove_character_from_location(locs, character_id, location_id) ==
    IF location_id \in DOMAIN locs
    THEN [locs EXCEPT ![location_id].characters = remove_character(@, character_id)]
    ELSE locs

\* Location.get_exits_description as a text
get_exits_description(locs, loc) ==
    IF DOMAIN locs[loc].exits = {}
    THEN <<"no_way_out">>
    ELSE <<"can_go">> \o [i \in 1..Len(WorldExitKeys[loc]) |->
                            LET d == WorldExitKeys[loc][i] IN
                            IF d \in DOMAIN direction_names THEN direction_names[d] ELSE d]

\* WorldService.get_location_description as a text
get_location_description(locs, cur) ==
    IF cur \notin DOMAIN locs
    THEN <<"lost_in_unknown_place">>
    ELSE <<"name", cur, "description", cur>> \o get_exits_description(locs, cur)
         \o (IF locs[cur].characters # <<>> THEN <<"here">> \o locs[cur].characters ELSE <<>>)

\* WorldService.get_available_directions
get_available_directions(locs, cur) ==
    IF cur \notin DOMAIN locs THEN <<>> ELSE WorldExitKeys[cur]

\* WorldService.get_characters_in_current_location
get_characters_in_current_location(locs, cur) ==
    IF cur \notin DOMAIN locs THEN <<>> ELSE locs[cur].characters

(***************************************************************************)
(* CharacterService: the fixed roster of _initialize_characters.           *)
(***************************************************************************)
CharacterIds == {"elder", "shopkeeper", "traveler", "villager", "fisherman"}

\* dict insertion order of the roster
CharacterOrder == <<"elder", "shopkeeper", "traveler", "villager", "fisherman">>

\* Character.__init__ for each roster entry (name and personality are the id's)
InitialCharacters ==
    [elder      |-> [location |-> "village_center",  mood |-> 700, conversation_history |-> <<>>],
     shopkeeper |-> [location |-> "village_shop",    mood |-> 600, conversation_history |-> <<>>],
     traveler   |-> [location |-> "forest_entrance", mood |-> 500, conversation_history |-> <<>>],
     villager   |-> [location |-> "village_house",   mood |-> 500, conversation_history |-> <<>>],
     fisherman  |-> [location |-> "river_bank",      mood |-> 600, conversation_history |-> <<>>]]

\* max(0.0, min(1.0, x))
Clamp(x) == Max2(MoodMin, Min2(MoodMax, x))

\* update_mood without the clamp
update_mood_unclamped(character, new_mood) == [character EXCEPT !.mood = new_mood]

\* Character.update_mood
update_mood(character, new_mood) == [character EXCEPT !.mood = Clamp(new_mood)]

\* add_conversation keeping the first 10 entries instead of the last 10
add_conversation_keeps_oldest(character, user_message, ai_response) ==
    LET appended == Append(character.conversation_history,
                           [user |-> user_message, ai |-> ai_response])
    IN [character EXCEPT !.conversation_history =
            IF Len(appended) > ConversationLimit
            THEN SubSeq(appended, 1, ConversationLimit) ELSE appended]

\* Character.add_conversation
add_conversation(character, user_message, ai_response) ==
    LET appended == Append(character.conversation_history,
                           [user |-> user_message, ai |-> ai_response])
    IN [character EXCEPT !.conversation_history =
            IF Len(appended) > ConversationLimit
            THEN LastN(appended, ConversationLimit) ELSE appended]

\* Character._get_mood_description (five display bands)
get_mood_description(mood) ==
    IF mood >= 800 THEN "very_friendly"
    ELSE IF mood >= 600 THEN "friendly"
    ELSE IF mood >= 400 THEN "normal"
    ELSE IF mood >= 200 THEN "cold"
    ELSE "hostile"

\* CharacterService.update_character_mood
update_character_mood(chars, character_id, new_mood) ==
    IF character_id \in DOMAIN chars
    THEN [chars EXCEPT ![character_id] = update_mood(@, new_mood)]
    ELSE chars

\* CharacterService.get_character_list_for_location (ids in roster order)
get_character_list_for_location(chars, location) ==
    SelectSeq(CharacterOrder,
              LAMBDA id : id \in DOMAIN chars /\ chars[id].location = location)

\* reset_all_moods restoring the moods only
reset_all_moods_keeping_history(chars) ==
    [id \in DOMAIN chars |-> [chars[id] EXCEPT !.mood = DEFAULT_MOOD]]

\* CharacterService.reset_all_moods
reset_all_moods(chars) ==
    [id \in DOMAIN chars |->
        [chars[id] EXCEPT !.mood = DEFAULT_MOOD, !.conversation_history = <<>>]]

(***************************************************************************)
(* Texts the completion endpoint can return.  A JSON document is one       *)
(* token; JsonDocs gives what json.loads makes of it.                      *)
(*   type       object | string | number                                   *)
(*   has_msg    the value of the Python test  "msg" in <value>             *)
(*   msg        the msg field of an object                                 *)
(*   mood_kind  absent | number | numeric_string | string | null           *)
(*   mood       the number float() makes of the mood field, in thousandths *)
(***************************************************************************)
Doc(type, has_msg, msg, mood_kind, mood) ==
    [type |-> type, has_msg |-> has_msg, msg |-> msg, mood_kind |-> mood_kind, mood |-> mood]

JsonDocs ==
    [d_msg_mood_high   |-> Doc("object", TRUE,  <<"hi">>, "number", 1700),
     d_msg_mood_low    |-> Doc("object", TRUE,  <<"hi">>, "number", -300),
     d_msg_mood_204    |-> Doc("object", TRUE,  <<"ok">>, "number", 204),
     d_msg_mood_900    |-> Doc("object", TRUE,  <<"ok">>, "numeric_string", 900),
     d_msg_only        |-> Doc("object", TRUE,  <<"hi">>, "absent", 0),
     d_msg_mood_word   |-> Doc("object", TRUE,  <<"hi">>, "string", 0),
     d_msg_mood_null   |-> Doc("object", TRUE,  <<"hi">>, "null", 0),
     d_mood_only       |-> Doc("object", FALSE, <<>>,     "number", 300),
     d_string          |-> Doc("string", FALSE, <<>>,     "absent", 0),
     d_string_with_msg |-> Doc("string", TRUE,  <<>>,     "absent", 0),
     d_number          |-> Doc("number", FALSE, <<>>,     "absent", 0)]

\* the strings "```json" (7 characters), "```" (3 characters) and white space
FENCE_JSON == "[fence-json]"
FENCE == "[fence]"
WS == " "

\* str.strip(): white space off both ends
RECURSIVE lstrip(_)
lstrip(s) == IF s # <<>> /\ Head(s) = WS THEN lstrip(Tail(s)) ELSE s

RECURSIVE rstrip(_)
rstrip(s) == IF s # <<>> /\ s[Len(s)] = WS THEN rstrip(SubSeq(s, 1, Len(s) - 1)) ELSE s

strip(s) == rstrip(lstrip(s))

\* the fence clean-up of get_character_response:
\*   if content.startswith("```json"): content = content[7:]
\*   if content.endswith("```"):       content = content[:-3]
strip_fences(content) ==
    LET c1 == IF content # <<>> /\ Head(content) = FENCE_JSON THEN Tail(content) ELSE content
    IN IF c1 # <<>> /\ c1[Len(c1)] = FENCE THEN SubSeq(c1, 1, Len(c1) - 1) ELSE c1

\* json.loads(content): white space around one document is accepted,
\* anything else raises JSONDecodeError
json_loads(content) ==
    LET c == strip(content) IN
    IF Len(c) = 1 /\ c[1] \in DOMAIN JsonDocs
    THEN [ok |-> TRUE, value |-> JsonDocs[c[1]]]
    ELSE [ok |-> FALSE, value |-> Doc("none", FALSE, <<>>, "absent", 0)]

(***************************************************************************)
(* AIService                                                               *)
(***************************************************************************)
\* f"{mood:.2f}" for a mood given in thousandths (as a number of hundredths)
FormatMood(mood) == ToString((mood + 5) \div 10)

\* mood_level of build_character_prompt (three prompt bands)
mood_level(mood) ==
    IF mood >= 700 THEN "excellent" ELSE IF mood >= 400 THEN "good" ELSE "poor"

\* AIService.build_character_prompt as a text
build_character_prompt(character_name, character_personality, location, mood) ==
    <<"you_play", character_name, "mood", FormatMood(mood), mood_level(mood),
      "personality", character_personality, "location", location,
      "max_length", ToString(MAX_RESPONSE_LENGTH), "reply_as_json_msg_mood">>

Message(role, content) == [role |-> role, content |-> content]

\* AIService._get_session_history: the entry is created when missing
get_session_history(histories, session_id) ==
    IF session_id \in DOMAIN histories
    THEN histories
    ELSE [k \in DOMAIN histories \cup {session_id} |->
            IF k = session_id THEN <<>> ELSE histories[k]]

\* _clear_session_history emptying every session
clear_session_history_all(histories, session_id) ==
    [k \in DOMAIN histories \cup {session_id} |-> <<>>]

\* AIService._clear_session_history
clear_session_history(histories, session_id) ==
    [k \in DOMAIN histories \cup {session_id} |->
        IF k = session_id THEN <<>> ELSE histories[k]]

\* the system entry inserted on every call, never overwritten
with_system_and_user_inserting(history, system_prompt, player_message) ==
    Append(<<[role |-> "system", content |-> system_prompt]>> \o history,
           [role |-> "user", content |-> player_message])

\* lines 105-112: insert or overwrite the system entry, append the user entry
with_system_and_user(history, system_prompt, player_message) ==
    LET h1 == IF history = <<>> \/ history[1].role # "system"
              THEN <<Message("system", system_prompt)>> \o history
              ELSE [history EXCEPT ![1].content = system_prompt]
    IN Append(h1, Message("user", player_message))

\* lines 151-153: `history = [history[0]] + history[-19:]` when len > 20.
\* The assignment rebinds the local name `history`; the list object kept in
\* session_histories is the one the appends were made on.
truncated_local(history) ==
    IF Len(history) > SessionLimit
    THEN <<history[1]>> \o LastN(history, SessionKeep)
    ELSE history

\* what the list stored under the session key is after lines 148-153
stored_after_success(history) == history

\* fallback line of the `except OpenAIError` branch (lines 175-184)
openai_fallback(error, character_name) ==
    IF error \in {"404", "not found"} THEN <<"model_unavailable">>
    ELSE IF error \in {"401", "403"} THEN <<"auth_failed">>
    ELSE IF error \in {"quota", "limit"} THEN <<"quota_exhausted">>
    ELSE <<character_name, "is_thinking_cannot_answer">>

Answer(msg, mood, status) == [msg |-> msg, mood |-> mood, status |-> status]

\* the except branch answering with mood 0.0 instead of the caller's mood
generic_error_zero_mood(character_name, mood) ==
    [msg |-> <<character_name, "looks_confused">>, mood |-> MoodMin, status |-> "error"]

\* the return of the `except Exception` branch (lines 196-205)
generic_error(character_name, mood) ==
    Answer(<<character_name, "looks_confused">>, mood, "error")

\* lines 128-173: handling of a non-empty content string.
\* Gives the answer and the assistant entries appended to the list.
handle_content(raw, character_name, mood) ==
    LET content == strip_fences(strip(raw))
        parsed == json_loads(content)
        text_path == [answer |-> Answer(content, mood, "success_text"),
                      appended |-> <<Message("assistant", content)>>]
        error_path == [answer |-> generic_error(character_name, mood), appended |-> <<>>]
        v == parsed.value
    IN  IF ~parsed.ok THEN text_path                      \* JSONDecodeError
        ELSE IF v.type = "number" THEN error_path         \* "msg" in 42: TypeError
        ELSE IF ~v.has_msg THEN text_path                 \* ValueError raised at line 142
        ELSE IF v.type # "object" THEN error_path         \* str.get: AttributeError
        ELSE IF v.mood_kind = "string" THEN text_path     \* float("happy"): ValueError
        ELSE IF v.mood_kind = "null" THEN error_path      \* float(None): TypeError
        ELSE LET parsed_mood == IF v.mood_kind = "absent" THEN mood ELSE v.mood
             IN [answer |-> Answer(v.msg, Clamp(parsed_mood), "success"),
                 appended |-> <<Message("assistant", v.msg)>>]

Reply(kind, content, error) == [kind |-> kind, content |-> content, error |-> error]

\* the client test made after the session was looked up
without_client_opening_session(histories, session_id) ==
    get_session_history(histories, session_id)

\* lines 88-94: the return of `if not self.client` comes before
\* _get_session_history (line 103) is called
without_client(histories, session_id) == histories

\* AIService.get_character_response.  `reply` is what the completion call
\* does: kind "content" (a content string), "no_choices" (empty choices),
\* "openai_error" (raises OpenAIError(error)) or "exception" (raises another
\* exception).  Gives the answer, the new session_histories and the message
\* list that was sent.
get_character_response(histories, has_client, character_name, character_personality, player_message, location, mood, session_id, reply) ==
    IF ~has_client
    THEN [answer |-> Answer(<<character_name, "does_not_want_to_talk">>, mood, "error"),
          histories |-> without_client(histories, session_id), sent |-> <<>>]
    ELSE
    LET system_prompt == build_character_prompt(character_name, character_personality,
                                                location, mood)
        h0 == get_session_history(histories, session_id)
        history == with_system_and_user(h0[session_id], system_prompt, player_message)
        stored(h) == [h0 EXCEPT ![session_id] = h]
    IN  IF reply.kind = "openai_error"
        THEN [answer |-> Answer(openai_fallback(reply.error, character_name), mood, "error"),
              histories |-> stored(history), sent |-> history]
        ELSE IF reply.kind = "exception" \/ reply.kind = "no_choices" \/ reply.content = <<>>
        THEN [answer |-> generic_error(character_name, mood),
              histories |-> stored(history), sent |-> history]
        ELSE LET r == handle_content(reply.content, character_name, mood)
             IN [answer |-> r.answer,
                 histories |-> stored(IF r.answer.status = "success"
                                      THEN stored_after_success(history \o r.appended)
                                      ELSE history \o r.appended),
                 sent |-> history]

\* AIService.get_session_info (it creates the entry through _get_session_history)
get_session_info(histories, session_id) ==
    LET h == get_session_history(histories, session_id)[session_id]
    IN [message_count |-> Len(h),
        has_system_prompt |-> Len(h) > 0 /\ h[1].role = "system"]

(***************************************************************************)
(* GameService                                                             *)
(***************************************************************************)
\* f"char_{character_id}"
session_key(character_id) ==
    CASE character_id = "elder" -> "char_elder"
      [] character_id = "shopkeeper" -> "char_shopkeeper"
      [] character_id = "traveler" -> "char_traveler"
      [] character_id = "villager" -> "char_villager"
      [] character_id = "fisherman" -> "char_fisherman"
      [] OTHER -> "char_other"

\* GameService._sync_character_locations over the first n roster entries
RECURSIVE sync_from(_, _, _)
sync_from(locs, chars, n) ==
    IF n = 0 THEN locs
    ELSE LET id == CharacterOrder[n]
             before == sync_from(locs, chars, n - 1)
         IN IF id \in DOMAIN chars
            THEN add_character_to_location(before, id, chars[id].location)
            ELSE before

\* a synchronisation that adds nobody
sync_character_locations_skipped(locs, chars) == locs

sync_character_locations(locs, chars) == sync_from(locs, chars, Len(CharacterOrder))

\* GameService._get_mock_ai_response
get_mock_ai_response(character_id, message) == <<"mock", character_id>> \o message

NoReply == Reply("none", <<>>, "")

\* what an operation returned, with the inputs it was called with (arg, num,
\* reply); unused fields keep these values
Ret(op, arg, kind) ==
    [op |-> op, arg |-> arg, kind |-> kind, ok |-> FALSE, status |-> "none",
     mood |-> -1, num |-> 0, text |-> <<>>, count |-> -1, reply |-> NoReply]

\* process_command without its try: the handler's exception reaches the caller
command_error_propagating(op, arg) == Ret(op, arg, "raised")

\* the `except Exception` of process_command
command_error(op, arg) ==
    Ret(op, arg, IF debug_mode THEN "error_debug" ELSE "error_generic")

NoSessions == [k \in {} |-> <<>>]

NoExchanges == [id \in CharacterIds |-> <<>>]

NoGameState ==
    [current_location |-> "", player_name |-> "", history |-> <<>>, game_started |-> FALSE]

(***************************************************************************)
(* Inputs                                                                  *)
(***************************************************************************)
\* the verbs of the direct direction branch of process_command; after
\* "w" they are U+5317 U+5357 U+4E1C U+897F U+4E0A U+4E0B U+5DE6 U+53F3
DirectionVerbs ==
    {"north", "n", "south", "s", "east", "e", "west", "w",
     "zh_bei", "zh_nan", "zh_dong", "zh_xi", "zh_shang", "zh_xia", "zh_zuo", "zh_you"}

\* first argument of a go command
GoArguments ==
    DirectionVerbs \cup DOMAIN direction_map \cup {"up", "down", "nowhere"}

\* the direction words used by the game specification
GameVerbs == {"north", "south", "east", "west", "n"}
GameGoArguments == {"zh_beifang", "nowhere"}

\* first argument of a talk command
TalkTargets == CharacterIds \cup {"nobody"}

\* the words after the character id (none: the default message is used)
PlayerMessages == {<<"hello">>}

\* the default message of a talk command, U+4F60 U+597D
DEFAULT_MESSAGE == <<"zh_nihao">>

ContentReplies ==
    {Reply("content", c, "") : c \in
        {<<"d_msg_mood_high">>, <<"d_msg_mood_low">>, <<"d_msg_mood_204">>,
         <<"d_msg_mood_900">>, <<"d_msg_only">>, <<"d_msg_mood_word">>,
         <<"d_msg_mood_null">>, <<"d_mood_only">>, <<"d_string">>,
         <<"d_string_with_msg">>, <<"d_number">>, <<"hello there">>,
         <<FENCE_JSON, WS, "d_msg_mood_204", WS, FENCE>>,
         <<FENCE_JSON, "not json", FENCE>>,
         <<FENCE, "d_msg_only", FENCE>>,
         <<WS, "d_msg_only", WS>>, <<WS>>, <<>>}}

ErrorReplies ==
    {Reply("no_choices", <<>>, "")}
    \cup {Reply("openai_error", <<>>, e) : e \in {"404", "401", "quota", "timeout"}}
    \cup {Reply("exception", <<>>, "")}

\* everything the completion call can do
Replies == ContentReplies \cup ErrorReplies

\* the replies used by the game specifications
GameReplies ==
    {Reply("content", <<"d_msg_mood_high">>, ""),
     Reply("content", <<FENCE_JSON, "not json", FENCE>>, ""),
     Reply("openai_error", <<>>, "404")}

(***************************************************************************)
(* Initial state: GameService.__init__                                     *)
(***************************************************************************)
Init ==
    /\ current_location = START_LOCATION
    /\ characters = InitialCharacters
    /\ locations = sync_character_locations(
                      [l \in LocationIds |-> [exits |-> WorldExits[l], characters |-> <<>>]],
                      InitialCharacters)
    /\ session_histories = NoSessions
    /\ client \in BOOLEAN
    /\ debug_mode \in BOOLEAN
    /\ loop_running \in BOOLEAN
    /\ sent = <<>>
    /\ game_state = NoGameState
    /\ result = Ret("init", "", "none")
    /\ exchanges = NoExchanges
    /\ calls = 0

(***************************************************************************)
(* GameService.create_new_game                                             *)
(***************************************************************************)
\* create_new_game also discarding the adapter's sessions
CreateNewGame_clearing_sessions ==
    LET chars == reset_all_moods(characters)
        locs == sync_character_locations(locations, chars)
    IN /\ current_location' = START_LOCATION
       /\ characters' = chars
       /\ locations' = locs
       /\ game_state' = [current_location |-> START_LOCATION,
                         player_name |-> "adventurer",
                         history |-> <<[type |-> "system", content |-> <<"welcome">>],
                                       [type |-> "system",
                                        content |-> get_location_description(locs, START_LOCATION)]>>,
                         game_started |-> TRUE]
       /\ exchanges' = NoExchanges
       /\ result' = Ret("create_new_game", "", "game_state")
       /\ session_histories' = NoSessions
       /\ UNCHANGED <<client, debug_mode, loop_running, sent, calls>>

CreateNewGame ==
    LET chars == reset_all_moods(characters)
        locs == sync_character_locations(locations, chars)
    IN /\ current_location' = START_LOCATION
       /\ characters' = chars
       /\ locations' = locs
       /\ game_state' = [current_location |-> START_LOCATION,
                         player_name |-> "adventurer",
                         history |-> <<[type |-> "system", content |-> <<"welcome">>],
                                       [type |-> "system",
                                        content |-> get_location_description(locs, START_LOCATION)]>>,
                         game_started |-> TRUE]
       /\ exchanges' = NoExchanges
       /\ result' = Ret("create_new_game", "", "game_state")
       /\ UNCHANGED <<session_histories, client, debug_mode, loop_running, sent, calls>>

(***************************************************************************)
(* GameService.process_command, one action per branch                      *)
(***************************************************************************)
services == <<current_location, locations, characters, session_histories,
              client, debug_mode, loop_running, sent, exchanges, calls>>

\* `if not command`
CmdEmpty ==
    /\ game_state.game_started
    /\ result' = Ret("empty", "", "enter_a_command")
    /\ UNCHANGED <<services, game_state>>

\* a clear command that starts the GameState afresh
CmdClear_resetting ==
    /\ game_state.game_started
    /\ game_state' = [current_location |-> START_LOCATION, player_name |-> "adventurer",
                      history |-> <<>>, game_started |-> TRUE]
    /\ result' = Ret("clear", "", "screen_cleared")
    /\ UNCHANGED services

\* _handle_clear_command
CmdClear ==
    /\ game_state.game_started
    /\ game_state' = [game_state EXCEPT !.history = <<>>]
    /\ result' = Ret("clear", "", "screen_cleared")
    /\ UNCHANGED services

\* _get_help_message
CmdHelp ==
    /\ game_state.game_started
    /\ result' = Ret("help", "", "help")
    /\ UNCHANGED <<services, game_state>>

\* _handle_look_command
CmdLook ==
    /\ game_state.game_started
    /\ result' = [Ret("look", "", "description") EXCEPT
                    !.text = get_location_description(locations, current_location)]
    /\ UNCHANGED <<services, game_state>>

\* _handle_where_command: location.name on None raises
CmdWhere ==
    /\ game_state.game_started
    /\ result' = IF current_location \in DOMAIN locations
                 THEN [Ret("where", "", "location_name") EXCEPT !.text = <<current_location>>]
                 ELSE command_error("where", "")
    /\ UNCHANGED <<services, game_state>>

\* _handle_characters_command
CmdCharacters ==
    /\ game_state.game_started
    /\ LET listed == get_character_list_for_location(characters, current_location)
       IN result' = IF listed = <<>>
                    THEN [Ret("characters", "", "nobody_here") EXCEPT !.count = 0]
                    ELSE [Ret("characters", "", "character_list") EXCEPT
                            !.count = Len(listed),
                            !.text = [i \in 1..Len(listed) |->
                                        get_mood_description(characters[listed[i]].mood)]]
    /\ UNCHANGED <<services, game_state>>

\* _handle_move_command without the update of the GameState
handle_move_command_forgetting(args) ==
    IF args = <<>>
    THEN /\ result' = Ret("move", "", "where_to")
         /\ UNCHANGED <<current_location, game_state>>
    ELSE LET m == move_to(locations, current_location, args[1])
         IN /\ current_location' = m.current_location
            /\ game_state' = game_state
            /\ result' = [Ret("move", args[1], m.message) EXCEPT !.ok = m.success]

\* _handle_move_command(args, game_state)
handle_move_command(args) ==
    IF args = <<>>
    THEN /\ result' = [Ret("move", "", "where_to") EXCEPT
                         !.text = LET ds == get_available_directions(locations, current_location)
                                  IN [i \in 1..Len(ds) |->
                                        IF ds[i] \in DOMAIN direction_names
                                        THEN direction_names[ds[i]] ELSE ds[i]]]
         /\ UNCHANGED <<current_location, game_state>>
    ELSE LET direction == args[1]
             m == move_to(locations, current_location, direction)
         IN /\ current_location' = m.current_location
            /\ IF m.success
               THEN /\ game_state' = [game_state EXCEPT !.current_location = m.current_location]
                    /\ result' = [Ret("move", direction, m.message) EXCEPT
                                    !.ok = TRUE,
                                    !.text = get_location_description(locations,
                                                                      m.current_location)]
               ELSE /\ game_state' = game_state
                    /\ result' = Ret("move", direction, m.message)

\* the go branch of process_command, the first argument drawn from arguments
CmdMoveWith(arguments) ==
    /\ game_state.game_started
    /\ \E args \in {<<>>} \cup {<<d>> : d \in arguments} : handle_move_command(args)
    /\ UNCHANGED <<locations, characters, session_histories, client, debug_mode, loop_running,
                   sent, exchanges, calls>>

CmdMove == CmdMoveWith(GameGoArguments)

\* _handle_direction_command, the verb drawn from verbs
CmdDirectionWith(verbs) ==
    /\ game_state.game_started
    /\ \E action \in verbs : handle_move_command(<<action>>)
    /\ UNCHANGED <<locations, characters, session_histories, client, debug_mode,
                   loop_running, sent, exchanges, calls>>

CmdDirection == CmdDirectionWith(GameVerbs)

\* _handle_status_command: location.name on None raises
CmdStatus ==
    /\ game_state.game_started
    /\ result' = IF current_location \in DOMAIN locations
                 THEN [Ret("status", "", "status") EXCEPT
                         !.text = <<current_location>>,
                         !.count = Len(get_characters_in_current_location(locations,
                                                                          current_location)),
                         !.num = Len(game_state.history)]
                 ELSE command_error("status", "")
    /\ UNCHANGED <<services, game_state>>

\* the else branch of process_command
CmdUnknown ==
    /\ game_state.game_started
    /\ result' = Ret("unknown", "dance", "unknown_command")
    /\ UNCHANGED <<services, game_state>>

\* asyncio.run itself raising: it does when an event loop is already running
RunError == Reply("run_error", <<>>, "")

\* what a talk command can meet: RunError, or a reply of the completion call
TalkOutcomes(replies) == IF loop_running THEN {RunError} ELSE replies

Record(log, id, user_message, ai_response) ==
    [log EXCEPT ![id] = Append(@, [user |-> user_message, ai |-> ai_response])]

\* the reply changing the mood only
talked_mood_only(character, new_mood, message, response_text) ==
    update_mood(character, new_mood)

\* lines 243-247: character.update_mood(new_mood), then
\* character.add_conversation(message, response_text)
talked(character, new_mood, message, response_text) ==
    add_conversation(update_mood(character, new_mood), message, response_text)

\* _handle_talk_command once the character is known to be here
talk_to(character_id, message, outcome) ==
    LET character == characters[character_id] IN
    IF outcome.kind = "run_error"
    THEN \* the except branch (lines 257-264)
         /\ UNCHANGED <<session_histories, sent>>
         /\ IF debug_mode
            THEN /\ result' = [Ret("talk", character_id, "ai_service_error") EXCEPT
                                 !.reply = outcome]
                 /\ UNCHANGED <<characters, exchanges>>
            ELSE LET response == get_mock_ai_response(character_id, message) IN
                 /\ characters' = [characters EXCEPT ![character_id] =
                                      add_conversation(@, message, response)]
                 /\ exchanges' = Record(exchanges, character_id, message, response)
                 /\ result' = [Ret("talk", character_id, "talk_reply") EXCEPT
                                 !.status = "mock", !.mood = character.mood,
                                 !.text = response, !.reply = outcome]
    ELSE LET r == get_character_response(session_histories, client, character_id,
                                         character_id, message, current_location,
                                         character.mood, session_key(character_id), outcome)
             response_text == r.answer.msg
             new_mood == r.answer.mood
             updated == talked(character, new_mood, message, response_text)
         IN /\ session_histories' = r.histories
            /\ sent' = IF client THEN r.sent ELSE sent
            /\ characters' = [characters EXCEPT ![character_id] = updated]
            /\ exchanges' = Record(exchanges, character_id, message, response_text)
            /\ result' = [Ret("talk", character_id, "talk_reply") EXCEPT
                            !.status = r.answer.status, !.mood = updated.mood,
                            !.num = new_mood, !.text = response_text,
                            !.reply = outcome]

\* the not-found return also opening an adapter session for the id
talk_not_found_opening_session(character_id) ==
    /\ result' = Ret("talk", character_id, "not_found")
    /\ session_histories' = get_session_history(session_histories, session_key(character_id))
    /\ UNCHANGED <<characters, sent, exchanges, calls>>

\* _handle_talk_command: `if not character` (get_character returned None)
talk_not_found(character_id) ==
    /\ result' = Ret("talk", character_id, "not_found")
    /\ UNCHANGED <<characters, session_histories, sent, exchanges, calls>>

\* the location test answering that every character is here
character_is_here_always(character, location) == TRUE

\* _handle_talk_command: the negation of `character.location != current_location`
character_is_here(character, location) == character.location = location

\* _handle_talk_command, the completion call's reply drawn from replies
CmdTalkWith(replies) ==
    /\ game_state.game_started
    /\ \/ /\ result' = Ret("talk", "", "talk_usage")          \* no argument
          /\ UNCHANGED <<characters, session_histories, sent, exchanges, calls>>
       \/ \E character_id \in TalkTargets, words \in PlayerMessages :
            LET message == IF words = <<>> THEN DEFAULT_MESSAGE ELSE words IN
            IF character_id \notin DOMAIN characters
            THEN talk_not_found(character_id)
            ELSE IF ~character_is_here(characters[character_id], current_location)
            THEN /\ result' = Ret("talk", character_id, "not_here")
                 /\ UNCHANGED <<characters, session_histories, sent, exchanges, calls>>
            ELSE /\ calls < MaxTalk
                 /\ calls' = calls + 1
                 /\ \E outcome \in TalkOutcomes(replies) :
                        talk_to(character_id, message, outcome)
    /\ UNCHANGED <<current_location, locations, client, debug_mode, loop_running, game_state>>

CmdTalk == CmdTalkWith(GameReplies)

\* the game: construction, new games and command lines
Next ==
    \/ CreateNewGame
    \/ CmdEmpty
    \/ CmdClear
    \/ CmdHelp
    \/ CmdLook
    \/ CmdWhere
    \/ CmdCharacters
    \/ CmdMove
    \/ CmdDirection
    \/ CmdTalk
    \/ CmdStatus
    \/ CmdUnknown

Spec == Init /\ [][Next]_vars

(***************************************************************************)
(* The services called directly                                            *)
(***************************************************************************)
\* moods a caller hands to update_character_mood (-5.0, 0.25, 5.0)
MoodInputs == {-5000, 250, 5000}

\* CharacterService.update_character_mood
UpdateCharacterMood ==
    /\ calls < MaxTalk
    /\ calls' = calls + 1
    /\ \E character_id \in CharacterIds \cup {"nobody"}, new_mood \in MoodInputs :
         /\ characters' = update_character_mood(characters, character_id, new_mood)
         /\ result' = [Ret("update_character_mood", character_id, "none") EXCEPT
                         !.num = new_mood]
    /\ UNCHANGED <<current_location, locations, session_histories, client, debug_mode, loop_running,
                   sent, game_state, exchanges>>

\* direct calls between new games, moves and talk commands
NextAPI ==
    \/ CreateNewGame
    \/ CmdDirection
    \/ CmdTalk
    \/ UpdateCharacterMood

SpecAPI == Init /\ [][NextAPI]_vars

(***************************************************************************)
(* The dialogue adapter on its own                                         *)
(***************************************************************************)
SessionIds == {"char_elder", "default"}

\* moods a caller hands to get_character_response (0.5 and 0.704)
AdapterMoods == {500, 704}

\* AIService.get_character_response called for some session, mood and reply
RespondWith(ids, moods, replies, bound) ==
    /\ calls < bound
    /\ calls' = calls + 1
    /\ \E session_id \in ids, mood \in moods, reply \in replies :
         LET r == get_character_response(session_histories, client, "elder", "elder",
                                         <<"hello">>, START_LOCATION, mood, session_id, reply)
         IN /\ session_histories' = r.histories
            /\ sent' = IF client THEN r.sent ELSE sent
            /\ result' = [Ret("respond", session_id, "answer") EXCEPT
                            !.status = r.answer.status, !.mood = r.answer.mood,
                            !.num = mood, !.text = r.answer.msg, !.reply = reply]
    /\ UNCHANGED <<current_location, locations, characters, client, debug_mode, loop_running,
                   game_state, exchanges>>

Respond == RespondWith(SessionIds, AdapterMoods, Replies, MaxCalls)

\* AIService.clear_character_history
ClearCharacterHistory ==
    /\ \E session_id \in SessionIds :
         /\ session_histories' = clear_session_history(session_histories, session_id)
         /\ result' = Ret("clear_character_history", session_id, "none")
    /\ UNCHANGED <<current_location, locations, characters, client, debug_mode, loop_running,
                   sent, game_state, exchanges, calls>>

\* AIService.get_session_info
GetSessionInfo ==
    /\ \E session_id \in SessionIds :
         LET info == get_session_info(session_histories, session_id) IN
         /\ session_histories' = get_session_history(session_histories, session_id)
         /\ result' = [Ret("get_session_info", session_id, "none") EXCEPT
                         !.ok = info.has_system_prompt, !.count = info.message_count]
    /\ UNCHANGED <<current_location, locations, characters, client, debug_mode, loop_running,
                   sent, game_state, exchanges, calls>>

NextAI == Respond \/ ClearCharacterHistory \/ GetSessionInfo

\* the adapter reads neither debug_mode (but to print) nor loop_running
InitAI == Init /\ ~debug_mode /\ ~loop_running

SpecAI == InitAI /\ [][NextAI]_vars

\* a long conversation on one session: a reply that parses, or a time-out
DeepReplies ==
    {Reply("content", <<"d_msg_only">>, ""), Reply("openai_error", <<>>, "timeout")}

RespondDeep == RespondWith({"char_elder"}, {DEFAULT_MOOD}, DeepReplies, MaxDeep)

NextDeep == RespondDeep

SpecDeep == InitAI /\ [][NextDeep]_vars

(***************************************************************************)
(* A Character on its own                                                  *)
(***************************************************************************)
\* Character.add_conversation called on the elder
AddConversation ==
    /\ calls < MaxAppend
    /\ calls' = calls + 1
    /\ \E user_message \in {<<"a">>, <<"b">>} :
         /\ characters' = [characters EXCEPT !["elder"] =
                              add_conversation(@, user_message, <<"r">>)]
         /\ exchanges' = Record(exchanges, "elder", user_message, <<"r">>)
         /\ result' = Ret("add_conversation", "elder", "none")
    /\ UNCHANGED <<current_location, locations, session_histories, client, debug_mode, loop_running,
                   sent, game_state>>

NextChar == AddConversation

\* a Character reads none of client, debug_mode and loop_running
InitChar == Init /\ client /\ ~debug_mode /\ ~loop_running

SpecChar == InitChar /\ [][NextChar]_vars

(***************************************************************************)
(* The world on its own, and the navigation commands with every direction  *)
(* word                                                                    *)
(***************************************************************************)
\* WorldService.move_to called directly
MoveTo ==
    /\ \E direction \in GoArguments :
         LET m == move_to(locations, current_location, direction) IN
         /\ current_location' = m.current_location
         /\ result' = [Ret("move_to", direction, m.message) EXCEPT !.ok = m.success]
    /\ UNCHANGED <<locations, characters, session_histories, client, debug_mode,
                   loop_running, sent, game_state, exchanges, calls>>

\* reset_to_start also emptying the presence lists
reset_to_start_clearing_presence(locs) ==
    [current_location |-> START_LOCATION,
     locations |-> [l \in DOMAIN locs |-> [locs[l] EXCEPT !.characters = <<>>]]]

\* WorldService.reset_to_start: the pointer and the locations after the call
reset_to_start(locs) == [current_location |-> START_LOCATION, locations |-> locs]

\* WorldService.reset_to_start called directly
ResetToStart ==
    /\ LET r == reset_to_start(locations) IN
         /\ current_location' = r.current_location
         /\ locations' = r.locations
    /\ result' = Ret("reset_to_start", "", "none")
    /\ UNCHANGED <<characters, session_histories, client, debug_mode,
                   loop_running, sent, game_state, exchanges, calls>>

CmdMoveAny == CmdMoveWith(GoArguments)

CmdDirectionAny == CmdDirectionWith(DirectionVerbs)

NextWorld ==
    \/ MoveTo
    \/ ResetToStart
    \/ CreateNewGame
    \/ CmdMoveAny
    \/ CmdDirectionAny

SpecWorld == Init /\ [][NextWorld]_vars

(***************************************************************************)
(* A caller working on the mapping returned by get_all_characters          *)
(***************************************************************************)
\* CharacterService.get_all_characters: dict.copy() makes a new dict whose
\* values are the registry's own Character objects; an object is named here
\* by the registry key that holds it
get_all_characters(chars) == [id \in DOMAIN chars |-> id]

\* what a caller does with the returned mapping
CallerMutations ==
    {[kind |-> "delete_entry", id |-> id, mood |-> 0] : id \in CharacterIds}
    \cup {[kind |-> "add_entry", id |-> "ghost", mood |-> 0]}
    \cup {[kind |-> "update_mood", id |-> id, mood |-> m] :
             id \in CharacterIds, m \in {-5000, 250}}
    \cup {[kind |-> "set_location", id |-> "elder", mood |-> 0]}

\* the registry after the caller's mutation: the entries of the returned dict
\* are the caller's own, the Character objects are shared with the registry
registry_after(chars, mutation) ==
    LET returned == get_all_characters(chars) IN
    CASE mutation.kind \in {"delete_entry", "add_entry"} -> chars
      [] mutation.kind = "update_mood" ->
            [chars EXCEPT ![returned[mutation.id]] = update_mood(@, mutation.mood)]
      [] mutation.kind = "set_location" ->
            [chars EXCEPT ![returned[mutation.id]].location = "deep_forest"]

\* get_all_characters followed by one mutation through the returned mapping
GetAllCharacters ==
    /\ \E mutation \in CallerMutations :
         /\ characters' = registry_after(characters, mutation)
         /\ result' = [Ret("get_all_characters", mutation.id, mutation.kind) EXCEPT
                         !.num = mutation.mood]
    /\ UNCHANGED <<current_location, locations, session_histories, client, debug_mode,
                   loop_running, sent, game_state, exchanges, calls>>

NextRegistry == GetAllCharacters

SpecRegistry == InitChar /\ [][NextRegistry]_vars

(***************************************************************************)
(* The presence lists of the world, called directly                        *)
(***************************************************************************)
\* ids handed to the mutators: a roster id and an id of no roster entry
PresenceIds == {"elder", "ghost"}

\* location arguments: omitted, two locations, an unknown identifier
PresenceLocations == {"None", "village_center", "forest_entrance", "nowhere"}

\* directions the player walks between the calls
PresenceDirections == {"north", "south"}

\* WorldService.add_character_to_location
AddCharacterToLocation ==
    /\ \E character_id \in PresenceIds, location_id \in PresenceLocations :
         /\ locations' = add_character_to_location(
                             locations, character_id,
                             default_location(location_id, current_location))
         /\ result' = [Ret("add_character_to_location", character_id, "none") EXCEPT
                         !.text = <<location_id>>]
    /\ UNCHANGED <<current_location, characters, session_histories, client, debug_mode,
                   loop_running, sent, game_state, exchanges, calls>>

\* WorldService.remove_character_from_location
RemoveCharacterFromLocation ==
    /\ \E character_id \in PresenceIds, location_id \in PresenceLocations :
         /\ locations' = remove_character_from_location(
                             locations, character_id,
                             default_location(location_id, current_location))
         /\ result' = [Ret("remove_character_from_location", character_id, "none") EXCEPT
                         !.text = <<location_id>>]
    /\ UNCHANGED <<current_location, characters, session_histories, client, debug_mode,
                   loop_running, sent, game_state, exchanges, calls>>

\* WorldService.move_to between the calls
Walk ==
    /\ \E direction \in PresenceDirections :
         LET m == move_to(locations, current_location, direction) IN
         /\ current_location' = m.current_location
         /\ result' = [Ret("move_to", direction, m.message) EXCEPT !.ok = m.success]
    /\ UNCHANGED <<locations, characters, session_histories, client, debug_mode,
                   loop_running, sent, game_state, exchanges, calls>>

NextPresence ==
    \/ AddCharacterToLocation
    \/ RemoveCharacterFromLocation
    \/ Walk

\* the world reads none of client, debug_mode and loop_running
InitWorld == Init /\ client /\ ~debug_mode /\ ~loop_running

SpecPresence == InitWorld /\ [][NextPresence]_vars

(***************************************************************************)
(* The game with a caller that overwrites the world pointer                *)
(***************************************************************************)
\* WorldService.current_location is a plain attribute: a caller assigns an
\* identifier that is not a key of locations
LosePointer ==
    /\ current_location' = "void"
    /\ result' = Ret("set_current_location", "void", "none")
    /\ UNCHANGED <<locations, characters, session_histories, client, debug_mode,
                   loop_running, sent, game_state, exchanges, calls>>

\* the replies a talk command meets here: one that parses and an exception
LostReplies ==
    {Reply("content", <<"d_msg_only">>, ""), Reply("exception", <<>>, "")}

CmdTalkLost == CmdTalkWith(LostReplies)

\* every branch of process_command, new games, and the caller's assignment
NextLost ==
    \/ CreateNewGame
    \/ LosePointer
    \/ CmdEmpty
    \/ CmdClear
    \/ CmdHelp
    \/ CmdLook
    \/ CmdWhere
    \/ CmdCharacters
    \/ CmdMove
    \/ CmdDirection
    \/ CmdTalkLost
    \/ CmdStatus
    \/ CmdUnknown

SpecLost == Init /\ [][NextLost]_vars

(***************************************************************************)
(* A talk command in two steps: accepted (the completion call is in        *)
(* flight, result.kind is "pending") and returned                          *)
(***************************************************************************)
\* a caller that hands over the next command without waiting for the return
accepts_next_command_always(r) == TRUE

\* process_command is a plain synchronous method and asyncio.run blocks until
\* the coroutine is done: the caller has control only once the call returned
accepts_next_command(r) == r.kind # "pending"

\* what the completion call does: it answers, it times out (timeout=30
\* raises an OpenAIError) or it raises another exception
LiveReplies ==
    {Reply("content", <<"d_msg_mood_204">>, ""),
     Reply("openai_error", <<>>, "timeout"),
     Reply("exception", <<>>, "")}

\* _handle_talk_command up to the call of the adapter
AcceptTalk ==
    /\ game_state.game_started
    /\ accepts_next_command(result)
    /\ calls < MaxTalk
    /\ calls' = calls + 1
    /\ \E character_id \in CharacterIds :
         /\ character_id \in DOMAIN characters
         /\ character_is_here(characters[character_id], current_location)
         /\ result' = Ret("talk", character_id, "pending")
    /\ UNCHANGED <<current_location, locations, characters, session_histories, client,
                   debug_mode, loop_running, sent, game_state, exchanges>>

\* _handle_talk_command from the return (or the exception) of asyncio.run
CompleteTalk ==
    /\ result.kind = "pending"
    /\ \E outcome \in TalkOutcomes(LiveReplies) : talk_to(result.arg, <<"hello">>, outcome)
    /\ UNCHANGED <<current_location, locations, client, debug_mode, loop_running,
                   game_state, calls>>

LiveCreateNewGame == accepts_next_command(result) /\ CreateNewGame

LiveDirection == accepts_next_command(result) /\ CmdDirection

NextLive ==
    \/ LiveCreateNewGame
    \/ LiveDirection
    \/ AcceptTalk
    \/ CompleteTalk

\* the completion call is bounded by its timeout, so the return is not
\* postponed for ever
SpecLive == Init /\ [][NextLive]_vars /\ WF_vars(CompleteTalk)

(***************************************************************************)
(* Games played one after the other with the same services                 *)
(***************************************************************************)
ReplayReplies ==
    {Reply("content", <<"d_msg_mood_204">>, ""), Reply("content", <<"hello there">>, ""),
     Reply("openai_error", <<>>, "timeout")}

\* the command `talk elder hello`, at most MaxReplay times
TalkElder ==
    /\ game_state.game_started
    /\ calls < MaxReplay
    /\ calls' = calls + 1
    /\ character_is_here(characters["elder"], current_location)
    /\ \E outcome \in TalkOutcomes(ReplayReplies) : talk_to("elder", <<"hello">>, outcome)
    /\ UNCHANGED <<current_location, locations, client, debug_mode, loop_running, game_state>>

NextReplay ==
    \/ CreateNewGame
    \/ TalkElder

SpecReplay == Init /\ [][NextReplay]_vars

(***************************************************************************)
(* Talk commands meeting every failure of the completion call              *)
(***************************************************************************)
FailureReplies == ErrorReplies \cup {Reply("content", <<"d_msg_mood_low">>, "")}

CmdTalkFailing == CmdTalkWith(FailureReplies)

NextTalk ==
    \/ CreateNewGame
    \/ CmdDirection
    \/ CmdTalkFailing

SpecTalk == Init /\ [][NextTalk]_vars

(***************************************************************************)
(* Properties                                                              *)
(***************************************************************************)
Sessions == DOMAIN session_histories

AfterRespond == result.op = "respond" /\ client

\* what the content string of a reply parses to, once cleaned
ParsedContent(raw) == json_loads(strip_fences(strip(raw)))

\* the reply is JSON text of an object that has a msg field
HasMsgField(raw) ==
    LET p == ParsedContent(raw) IN p.ok /\ p.value.type = "object" /\ p.value.has_msg

\* C1: the message list stored for a session never holds more than 20
\* entries, however many get_character_response calls were made on it.
C1_SessionAtMost20 ==
    \A k \in Sessions : Len(session_histories[k]) <= SessionLimit

\* C2: move_to(d) with d a direction of the current location's exit map
\* succeeds and puts the pointer on the mapped destination; with a direction
\* that is not in the exit map (d, read through direction_map, is no key of
\* it) move_to fails and the pointer stays.
C2_MoveTo ==
    [][result'.op = "move_to" =>
         LET d == result'.arg
             exits == locations[current_location].exits
         IN /\ d \in DOMAIN exits =>
                 result'.ok /\ current_location' = exits[d]
            /\ (d \notin DOMAIN exits /\ normalized_direction(d) \notin DOMAIN exits) =>
                 ~result'.ok /\ current_location' = current_location]_vars

C2_Witness ==
    /\ result.op = "move_to" /\ result.arg = "north" /\ result.ok
    /\ current_location = "deep_forest"

\* the canonical direction each direction verb of the interpreter stands for
CanonicalOf ==
    [north |-> "north", n |-> "north", zh_bei |-> "north",
     south |-> "south", s |-> "south", zh_nan |-> "south",
     east |-> "east", e |-> "east", zh_dong |-> "east",
     west |-> "west", w |-> "west", zh_xi |-> "west",
     zh_shang |-> "up", zh_xia |-> "down"]

\* C3: for every synonym s of a canonical direction c, the command s (bare,
\* or after go) in a location that has exit c moves the player to c's
\* destination.
C3_SynonymsMove ==
    [][(result'.op = "move" /\ result'.arg \in DOMAIN CanonicalOf) =>
         LET c == CanonicalOf[result'.arg]
             exits == locations[current_location].exits
         IN c \in DOMAIN exits => current_location' = exits[c]]_vars

\* C4: when the reply is JSON with a msg field, the answer has status
\* "success", its text is the msg field and its mood is the parsed mood
\* clamped to [0,1], or the caller's mood when the mood field is absent or
\* is no number.
C4_MsgFieldGivesSuccess ==
    (AfterRespond /\ result.reply.kind = "content" /\ HasMsgField(result.reply.content)) =>
        LET v == ParsedContent(result.reply.content).value IN
        /\ result.status = "success"
        /\ result.text = v.msg
        /\ result.mood = IF v.mood_kind \in {"number", "numeric_string"}
                         THEN (IF v.mood < 0 THEN 0 ELSE IF v.mood > 1000 THEN 1000 ELSE v.mood)
                         ELSE result.num

\* C5: a non-empty session list has exactly one system entry, at index 0,
\* and after a call for that session it holds the prompt built by that call.
C5_SystemEntryFirst ==
    \A k \in Sessions :
        LET h == session_histories[k] IN
        h # <<>> =>
            /\ h[1].role = "system"
            /\ \A i \in 2..Len(h) : h[i].role # "system"
            /\ (AfterRespond /\ result.arg = k) =>
                  h[1].content = build_character_prompt("elder", "elder", START_LOCATION,
                                                        result.num)

\* a second call on the session, made with mood 0.704
C5_Witness ==
    /\ AfterRespond /\ result.arg = "char_elder" /\ result.num = 704
    /\ Len(session_histories["char_elder"]) >= 4

\* C6: conversation_history holds at most 10 entries, and they are the last
\* min(n, 10) of the n exchanges appended, in their order.
C6_LastTenExchanges ==
    \A id \in DOMAIN characters :
        LET h == characters[id].conversation_history
            n == Len(exchanges[id])
        IN /\ Len(h) <= 10
           /\ Len(h) = (IF n <= 10 THEN n ELSE 10)
           /\ \A i \in 1..Len(h) : h[i] = exchanges[id][n - Len(h) + i]

C6_Witness ==
    /\ Len(exchanges["elder"]) = 12
    /\ Len(characters["elder"].conversation_history) = 10

\* C7: current_location is always a key of the location set.
C7_PointerResolves == current_location \in DOMAIN locations

C7_Witness ==
    /\ result.op = "reset_to_start"
    /\ current_location = START_LOCATION
    /\ game_state.current_location = "deep_forest"

\* C8: update_character_mood(id, x) sets the mood of a registered id to
\* min(1, max(0, x)) and changes nothing for an id that is not registered;
\* every character's mood is in [0,1] at all times.
C8_MoodClamped ==
    /\ [](\A id \in DOMAIN characters :
             characters[id].mood >= 0 /\ characters[id].mood <= 1000)
    /\ [][result'.op = "update_character_mood" =>
            LET id == result'.arg
                x == result'.num
                clamped == IF x < 0 THEN 0 ELSE IF x > 1000 THEN 1000 ELSE x
            IN IF id \in DOMAIN characters
               THEN characters' = [characters EXCEPT ![id].mood = clamped]
               ELSE characters' = characters]_vars

C8_Witness ==
    /\ result.op = "update_character_mood" /\ result.num = 5000
    /\ result.arg = "traveler"
    /\ characters["traveler"].mood = 1000

\* C9: when the reply is text that is no JSON, or JSON without a msg field,
\* the answer has status "success_text" and the caller's mood, and the text
\* is appended to the session list as one assistant entry.
C9_MalformedIsText ==
    (AfterRespond /\ result.reply.kind = "content" /\ result.reply.content # <<>>
     /\ ~HasMsgField(result.reply.content)) =>
        LET h == session_histories[result.arg] IN
        /\ result.status = "success_text"
        /\ result.mood = result.num
        /\ h[Len(h)] = [role |-> "assistant", content |-> result.text]
        /\ h[Len(h) - 1].role = "user"

\* the completion call raised, or there is no client to call
FailedCall(r) ==
    \/ r.reply.kind \in {"openai_error", "exception", "no_choices"}
    \/ ~client /\ r.reply.kind = "content"

\* C10: a talk command whose adapter call has no client, or whose completion
\* call raises, gets a reply all the same; the adapter's answer has status
\* "error" and the mood it was called with, and the character's mood is
\* unchanged.
C10_ErrorKeepsMood ==
    [][(result'.op = "talk" /\ FailedCall(result')) =>
         LET id == result'.arg IN
         /\ result'.kind = "talk_reply"
         /\ result'.status = "error"
         /\ result'.num = characters[id].mood
         /\ characters'[id].mood = characters[id].mood]_vars

C10_Witness ==
    /\ result.op = "talk" /\ result.reply.kind = "exception"
    /\ client /\ result.status = "error"
    /\ result.mood = characters[result.arg].mood

\* C11: a talk command whose character id is not registered returns the
\* not-found message and changes nothing: pointer, presence lists, characters,
\* adapter sessions, GameState; the adapter is not called
C11_UnknownTalkChangesNothing ==
    [][(result'.op = "talk" /\ result'.arg # "" /\ result'.arg \notin DOMAIN characters)
         => /\ result'.kind = "not_found"
            /\ UNCHANGED <<current_location, locations, characters, session_histories,
                           sent, game_state, exchanges, calls>>]_vars

C11_Witness ==
    /\ result.op = "talk" /\ result.arg = "nobody" /\ result.kind = "not_found"
    /\ session_histories # NoSessions

\* C12: a talk command naming a registered character that is elsewhere
\* returns the not-here message, does not call the adapter and leaves the
\* character's mood, history and session alone; the adapter is called only
\* when the character's location is the current location
C12_AbsentCharacterNotCalled ==
    [][(result'.op = "talk" /\ result'.arg \in DOMAIN characters)
         => LET here == characters[result'.arg].location = current_location IN
            /\ ~here => /\ result'.kind = "not_here"
                        /\ UNCHANGED <<characters, session_histories, sent, exchanges, calls>>
            /\ here => result'.kind \in {"talk_reply", "ai_service_error"}
            /\ (session_histories' # session_histories \/ sent' # sent \/ calls' # calls)
                 => here]_vars

C12_Witness ==
    /\ result.op = "talk" /\ result.arg = "elder" /\ result.kind = "not_here"
    /\ current_location = "forest_entrance"

\* C13: after create_new_game, whatever talk and move commands came before,
\* every registered character has the default mood and an empty
\* conversation_history, and the world pointer is the start location
C13_NewGameResets ==
    result.op = "create_new_game"
        => /\ \A id \in DOMAIN characters :
                /\ characters[id].mood = DEFAULT_MOOD
                /\ characters[id].conversation_history = <<>>
           /\ current_location = START_LOCATION

\* a new game after the player walked to the forest entrance and talked to
\* the traveler there
C13_Witness ==
    /\ result.op = "create_new_game"
    /\ "char_traveler" \in DOMAIN session_histories
    /\ calls = 1

\* the values of result.op written by the branches of process_command
CommandOps ==
    {"empty", "clear", "help", "look", "where", "characters", "move", "talk",
     "status", "unknown"}

\* C14: process_command returns a string for every command line in every
\* reachable state, also when a handler raises (where or status with a
\* pointer that does not resolve, a failure inside talk): no exception
\* reaches the caller
C14_CommandsAlwaysReturn ==
    result.op \in CommandOps
        => /\ result.kind # "raised"
           /\ (result.op \in {"where", "status"} /\ current_location \notin DOMAIN locations)
                => result.kind = IF debug_mode THEN "error_debug" ELSE "error_generic"
           /\ (result.op = "talk" /\ result.reply.kind = "run_error")
                => result.kind = IF debug_mode THEN "ai_service_error" ELSE "talk_reply"

C14_Witness ==
    /\ result.op = "status" /\ result.kind = "error_generic"
    /\ current_location \notin DOMAIN locations
    /\ game_state.game_started

\* C15: starting from a GameState returned by create_new_game, after any
\* sequence of process_command calls on it, its current_location field equals
\* WorldService.current_location; a failed move changes neither
C15_GameStateFollowsWorld ==
    /\ [](game_state.game_started => game_state.current_location = current_location)
    /\ [][(result'.op = "move" /\ result'.arg # "" /\ ~result'.ok)
            => UNCHANGED <<current_location, game_state>>]_vars

C15_Witness ==
    /\ result.op = "move" /\ result.ok
    /\ current_location = "deep_forest"
    /\ game_state.current_location = "deep_forest"

\* C16: session isolation: a respond call or a clear_history call for session
\* key k changes only the list of k, every other session's list is unchanged,
\* and after clear_history(k) the list of k is empty, so that the next respond
\* on k starts from a fresh system entry
C16_SessionIsolation ==
    [][(result'.op \in {"respond", "clear_character_history"})
         => LET k == result'.arg IN
            /\ DOMAIN session_histories \subseteq DOMAIN session_histories'
            /\ DOMAIN session_histories' \subseteq DOMAIN session_histories \cup {k}
            /\ \A j \in DOMAIN session_histories \ {k} :
                    session_histories'[j] = session_histories[j]
            /\ result'.op = "clear_character_history"
                 => k \in DOMAIN session_histories' /\ session_histories'[k] = <<>>
            /\ (result'.op = "respond" /\ client /\ k \in DOMAIN session_histories
                    /\ session_histories[k] = <<>>)
                 => /\ Len(session_histories'[k]) >= 2
                    /\ session_histories'[k][1].role = "system"
                    /\ session_histories'[k][2].role = "user"]_vars

C16_Witness ==
    /\ result.op = "clear_character_history" /\ result.arg = "default"
    /\ DOMAIN session_histories = {"char_elder", "default"}
    /\ session_histories["default"] = <<>>
    /\ Len(session_histories["char_elder"]) >= 3

NoDuplicates(s) == \A i, j \in 1..Len(s) : s[i] = s[j] => i = j

\* C17: the presence mutators are idempotent: adding an id already present
\* leaves the list unchanged (no id is ever twice in a list), removing an
\* absent id changes nothing, and an omitted location argument targets the
\* current location
C17_PresenceIdempotent ==
    /\ [](\A l \in DOMAIN locations : NoDuplicates(locations[l].characters))
    /\ [][(result'.op \in {"add_character_to_location", "remove_character_from_location"})
            => LET id == result'.arg
                   location_id == result'.text[1]
                   target == IF location_id = "None" THEN current_location ELSE location_id
                   adding == result'.op = "add_character_to_location"
               IN IF target \notin DOMAIN locations
                  THEN locations' = locations
                  ELSE LET present == Contains(locations[target].characters, id) IN
                       /\ \A l \in DOMAIN locations \ {target} : locations'[l] = locations[l]
                       /\ locations'[target].exits = locations[target].exits
                       /\ (adding /\ present) => locations' = locations
                       /\ (adding /\ ~present)
                            => locations'[target].characters
                                 = Append(locations[target].characters, id)
                       /\ (~adding /\ ~present) => locations' = locations
                       /\ (~adding /\ present)
                            => /\ ~Contains(locations'[target].characters, id)
                               /\ Len(locations'[target].characters)
                                    = Len(locations[target].characters) - 1]_vars

\* the ghost was added, with the location omitted, where the traveler stands
C17_Witness ==
    /\ result.op = "add_character_to_location" /\ result.arg = "ghost"
    /\ result.text = <<"None">>
    /\ current_location = "forest_entrance"
    /\ locations["forest_entrance"].characters = <<"traveler", "ghost">>

\* C18: get_all_characters returns a copy: no mutation a caller performs
\* through the returned mapping (adding or deleting entries, changing the
\* mood, location or history of a Character obtained from it) changes the
\* registry
C18_CopyIsolatesRegistry ==
    [][result'.op = "get_all_characters" => characters' = characters]_vars

\* C19: in the shipped world every destination of every exit map is a key of
\* the location set, so move_to never answers that the target location does
\* not exist
C19_ExitsResolve ==
    /\ \A l \in DOMAIN locations : \A d \in DOMAIN locations[l].exits :
            locations[l].exits[d] \in DOMAIN locations
    /\ result.kind # "target_missing"

C19_Witness ==
    /\ result.op = "move_to" /\ result.arg = "zh_nan" /\ result.ok
    /\ current_location = "river_bank"

\* C20: reset_to_start sets current_location to the start identifier and
\* leaves every location's presence list and exit map unchanged
C20_ResetKeepsWorld ==
    [][result'.op = "reset_to_start"
         => current_location' = START_LOCATION /\ locations' = locations]_vars

\* a reset after the player walked to the shop, the shopkeeper still listed
C20_Witness ==
    /\ result.op = "reset_to_start"
    /\ current_location = START_LOCATION
    /\ game_state.current_location = "village_shop"
    /\ locations["village_shop"].characters = <<"shopkeeper">>

\* C21: on the parse-failure path the message returned and the assistant
\* entry appended to the session list are the endpoint's reply text verbatim
\* (the white space around it aside), also for a reply that begins with the
\* json fence or ends with the fence without holding valid JSON
C21_TextPathVerbatim ==
    (AfterRespond /\ result.status = "success_text")
        => LET h == session_histories[result.arg]
               raw == strip(result.reply.content)
           IN /\ result.text = raw
              /\ h[Len(h)] = Message("assistant", raw)

\* C22: a talk command that reaches the adapter and gets status "success"
\* sets the addressed character's mood to the returned (clamped) mood and
\* appends exactly one (player message, reply text) exchange to its
\* conversation history; every other character, the world pointer and the
\* presence lists are unchanged
C22_SuccessfulTalkEffect ==
    [][(result'.op = "talk" /\ result'.status = "success")
         => LET id == result'.arg
                before == characters[id]
                after == characters'[id]
            IN /\ after.mood = result'.num
               /\ after.mood \in MoodMin..MoodMax
               /\ after.location = before.location
               /\ \E message \in PlayerMessages \cup {DEFAULT_MESSAGE} :
                    after.conversation_history
                      = LastN(Append(before.conversation_history,
                                     [user |-> message, ai |-> result'.text]),
                              ConversationLimit)
               /\ \A other \in DOMAIN characters \ {id} :
                    characters'[other] = characters[other]
               /\ DOMAIN characters' = DOMAIN characters
               /\ UNCHANGED <<current_location, locations>>]_vars

\* the traveler, mood 0.5 after the new game, answered with mood 1.7
C22_Witness ==
    /\ result.op = "talk" /\ result.arg = "traveler" /\ result.status = "success"
    /\ characters["traveler"].mood = MoodMax
    /\ Len(characters["traveler"].conversation_history) = 1

Pending == result.kind = "pending"

\* C23: every accepted command is eventually answered: a talk command whose
\* completion call succeeds, fails or times out ends with process_command
\* returning a reply (real or fallback), and no second command is processed
\* before the first has returned
C23_CommandsAnswered ==
    /\ Pending ~> (result.op = "talk" /\ result.kind \in {"talk_reply", "ai_service_error"})
    /\ [][Pending => /\ result'.op = "talk"
                     /\ result'.arg = result.arg
                     /\ result'.kind \in {"talk_reply", "ai_service_error"}]_vars

\* the completion call timed out and the command returned the fallback line
C23_Witness ==
    /\ result.op = "talk" /\ result.kind = "talk_reply"
    /\ result.reply = Reply("openai_error", <<>>, "timeout")
    /\ result.status = "error"
    /\ result.text = <<result.arg, "is_thinking_cannot_answer">>

\* the ids of the registered characters whose location field is l
LocatedAt(l) == {id \in DOMAIN characters : characters[id].location = l}

\* C24: after construction and after any sequence of commands and
\* create_new_game calls, each location's presence list holds exactly the ids
\* of the registered characters whose location is that location, each once,
\* so the count shown by status equals the number of characters listed by
\* the characters command
C24_PresenceMatchesRegistry ==
    /\ \A l \in DOMAIN locations :
         /\ {locations[l].characters[i] : i \in 1..Len(locations[l].characters)}
              = LocatedAt(l)
         /\ Len(locations[l].characters) = Cardinality(LocatedAt(l))
    /\ (result.op = "status" /\ result.kind = "status")
         => result.count = Len(get_character_list_for_location(characters, current_location))
    /\ (result.op = "characters")
         => result.count = Len(get_characters_in_current_location(locations,
                                                                  current_location))

\* status at the river bank in a second game, after a talk in the first
C24_Witness ==
    /\ result.op = "status" /\ result.count = 1
    /\ current_location = "river_bank"
    /\ calls = 1
    /\ characters["fisherman"].conversation_history = <<>>
    /\ "char_fisherman" \in DOMAIN session_histories

\* C25: in every session list the entries after the system entry alternate
\* user, assistant, user, assistant: no two user entries are adjacent, and
\* every completed call (the error path included) leaves the list ending in
\* an assistant entry
C25_SessionAlternates ==
    \A k \in Sessions :
        LET h == session_histories[k] IN
        /\ \A i \in 2..Len(h) : h[i].role = IF i % 2 = 0 THEN "user" ELSE "assistant"
        /\ (AfterRespond /\ result.arg = k) => h[Len(h)].role = "assistant"

\* C26: create_new_game leaves every adapter session list unchanged: the
\* messages accumulated by talk commands before a new game are still stored,
\* and are sent to the endpoint by the first talk to the same character after
\* the new game, although the character's conversation history was cleared
C26_NewGameKeepsSessions ==
    /\ [][result'.op = "create_new_game"
            => session_histories' = session_histories /\ sent' = sent]_vars
    /\ [][(result'.op = "talk" /\ client /\ result'.reply.kind \in {"content", "openai_error"}
             /\ session_key(result'.arg) \in DOMAIN session_histories)
            => LET old == session_histories[session_key(result'.arg)] IN
               /\ Len(sent') = Len(old) + 1
               /\ \A i \in 2..Len(old) : sent'[i] = old[i]]_vars

\* the second talk to the elder, a new game in between: one exchange in the
\* conversation history, both talks in the messages sent
C26_Witness ==
    /\ result.op = "talk" /\ result.arg = "elder" /\ calls = 2
    /\ Len(characters["elder"].conversation_history) = 1
    /\ Len(sent) >= 4
    /\ sent[2] = Message("user", <<"hello">>)

\* C27: look, where, characters, status, help, go without a direction, the
\* empty line and an unknown verb are read-only: they leave the world pointer,
\* the presence lists, every character, every session list and the GameState
\* unchanged; clear changes only the GameState's history list, which becomes
\* empty
C27_ReadOnlyCommands ==
    /\ [][(\/ result'.op \in {"look", "where", "characters", "status", "help",
                              "empty", "unknown"}
           \/ (result'.op = "move" /\ result'.arg = "" /\ result'.kind = "where_to"))
            => UNCHANGED <<current_location, locations, characters, session_histories,
                           sent, game_state>>]_vars
    /\ [][result'.op = "clear"
            => /\ game_state' = [game_state EXCEPT !.history = <<>>]
               /\ UNCHANGED <<current_location, locations, characters,
                              session_histories, sent>>]_vars

\* the screen cleared in the deep forest after a talk
C27_Witness ==
    /\ result.op = "clear"
    /\ game_state.history = <<>>
    /\ game_state.current_location = "deep_forest"
    /\ current_location = "deep_forest"
    /\ session_histories # NoSessions

\* C28: when the adapter's client is not initialized, respond returns before
\* touching any session list: no system or user entry is added for the
\* session key, for every call and every key
C28_NoClientNoSession ==
    [][(result'.op = "respond" /\ ~client)
         => /\ session_histories' = session_histories
            /\ sent' = sent
            /\ result'.status = "error"
            /\ result'.mood = result'.num]_vars

\* two calls without a client, and still no session
C28_Witness ==
    /\ result.op = "respond" /\ ~client /\ calls = 2
    /\ result.status = "error"
    /\ result.text = <<"elder", "does_not_want_to_talk">>
    /\ session_histories = NoSessions

====
